---- MODULE Spec2Model ----
(***************************************************************************)
(* Model of libgit2's worktree management (src/libgit2/worktree.c).        *)
(*                                                                         *)
(* A path is the sequence of its segments: "/p/a/.git" is <<"p","a",".git">>.*)
(* A file that may be absent is a sequence of length 0 (absent) or 1 (its  *)
(* content).  The filesystem is one record, fs:                            *)
(*   worktrees  whether <commondir>/worktrees exists                       *)
(*   entries    the entries of <commondir>/worktrees in the order the      *)
(*              directory enumerates them (git_fs_path_dirload)            *)
(*   admin      entry name -> the files commondir, gitdir, HEAD, locked    *)
(*   work       working directory path -> its .git file                    *)
(* last is the call made last: its name, its return value and, for list   *)
(* and is_locked, its output.  adds holds, for each process, where it is   *)
(* in a git_worktree_add run one filesystem call at a time, and its locals.*)
(***************************************************************************)
EXTENDS Integers, Sequences, FiniteSets, TLC

VARIABLES fs, branches, wt, last, adds

vars == <<fs, branches, wt, last, adds>>

(* ------------------------------ bounds --------------------------------- *)

\* most entries under <commondir>/worktrees the model lets add create
MaxAdmin == 2

\* inputs of the calls
Names == {"a", "f"}
WorktreeDirs == {<<"p", "a">>, <<"q", "a">>}
\* add is called with a name that is the basename of the directory and
\* with one that is not
AddCalls == {[name |-> "a", worktree |-> <<"p", "a">>],
             [name |-> "f", worktree |-> <<"q", "a">>]}
\* the reason argument of lock: <<>> is a NULL pointer
Reasons == {<<>>, <<"">>, <<"r">>}
Tag == [kind |-> "tags", name |-> "v1"]

(* ------------------------------ constants ------------------------------ *)

GIT_ERROR == -1
GIT_EEXISTS == -4
GIT_ELOCKED == -14

RepoWorkdir == <<"repo">>
CommonDir == <<"repo", ".git">>
WorktreesDir == CommonDir \o <<"worktrees">>

NULL == [null |-> TRUE]
NoFile == <<>>

\* the value of K at the result of e: e is one statement of a function, K
\* the statements after it
Then(e, K(_)) == CHOOSE y \in {K(r) : r \in {e}} : TRUE

(* ------------------------------ paths ---------------------------------- *)

StartsWith(p, pre) == Len(p) >= Len(pre) /\ SubSeq(p, 1, Len(pre)) = pre
After(p, pre) == SubSeq(p, Len(pre) + 1, Len(p))

git_str_joinpath(a, b) == a \o b
git_str_join3(a, b, c) == a \o b \o c

git_fs_path_basename(p) == IF Len(p) = 0 THEN "." ELSE p[Len(p)]
git_fs_path_dirname(p) == IF Len(p) = 0 THEN <<>> ELSE SubSeq(p, 1, Len(p) - 1)

RECURSIVE resolve_from(_, _)
resolve_from(done, todo) ==
    IF Len(todo) = 0 THEN done
    ELSE IF Head(todo) = "." THEN resolve_from(done, Tail(todo))
    ELSE IF Head(todo) = ".."
         THEN resolve_from(git_fs_path_dirname(done), Tail(todo))
    ELSE resolve_from(Append(done, Head(todo)), Tail(todo))

\* joins relpath to target and resolves its "." and ".." segments
git_fs_path_apply_relative(target, relpath) ==
    resolve_from(<<>>, git_str_joinpath(target, relpath))

(* ------------------------------ filesystem ----------------------------- *)

AdminFiles == {"commondir", "gitdir", "HEAD", "locked"}
EmptyAdmin == [commondir |-> NoFile, gitdir |-> NoFile, HEAD |-> NoFile,
               locked |-> NoFile]
Range(s) == {s[i] : i \in 1..Len(s)}

git_fs_path_exists(f, path) ==
    IF StartsWith(path, WorktreesDir)
    THEN LET r == After(path, WorktreesDir) IN
         CASE Len(r) = 0 -> f.worktrees
           [] Len(r) = 1 -> r[1] \in DOMAIN f.admin
           [] Len(r) = 2 -> /\ r[1] \in DOMAIN f.admin
                            /\ r[2] \in AdminFiles
                            /\ f.admin[r[1]][r[2]] # NoFile
           [] OTHER -> FALSE
    ELSE IF StartsWith(CommonDir, path) THEN TRUE
    ELSE IF path \in DOMAIN f.work THEN TRUE
    ELSE IF git_fs_path_dirname(path) \in DOMAIN f.work
         THEN /\ git_fs_path_basename(path) = ".git"
              /\ f.work[git_fs_path_dirname(path)].gitlink # NoFile
    ELSE Len(path) = 1

git_fs_path_is_empty_dir(f, path) ==
    path = WorktreesDir /\ f.worktrees /\ Len(f.entries) = 0

git_fs_path_dirload(f, path) == f.entries

\* the content of the file at path; NoFile when it cannot be read
git_futils_readbuffer(f, path) ==
    IF ~git_fs_path_exists(f, path) THEN NoFile
    ELSE IF StartsWith(path, WorktreesDir)
         THEN LET r == After(path, WorktreesDir) IN f.admin[r[1]][r[2]]
    ELSE f.work[git_fs_path_dirname(path)].gitlink

(* ------------------------------ link files ----------------------------- *)

\* the text of a link file: a path, absolute or relative, and whether a
\* newline ends it
LinkText(abs, path, nl) == [abs |-> abs, path |-> path, nl |-> nl]

git_str_rtrim(text) == [text EXCEPT !.nl = FALSE]
git_fs_path_is_relative(text) == ~text.abs

is_worktree_private_directory(f, path) ==
    /\ git_fs_path_exists(f, git_str_joinpath(path, <<"commondir">>))
    /\ git_fs_path_exists(f, git_str_joinpath(path, <<"gitdir">>))
    /\ git_fs_path_exists(f, git_str_joinpath(path, <<"HEAD">>))

\* the path a link file names, NULL when the file cannot be read
git_worktree__read_link(f, base, file) ==
    LET buf == git_futils_readbuffer(f, git_str_joinpath(base, <<file>>)) IN
    IF buf = NoFile THEN NULL
    ELSE LET text == git_str_rtrim(buf[1]) IN
         IF ~git_fs_path_is_relative(text) THEN [path |-> text.path]
         ELSE [path |-> git_fs_path_apply_relative(base, text.path)]

\* [error, out]: out is the working directory of the worktree
get_worktree_gitdir_from_private_directory(f, directory) ==
    IF ~is_worktree_private_directory(f, directory)
    THEN [error |-> -1, out |-> <<>>]
    ELSE LET link == git_worktree__read_link(f, directory, "gitdir")
             buf == IF link = NULL THEN <<>> ELSE link.path
         IN [error |-> 0, out |-> git_fs_path_apply_relative(buf, <<"..">>)]

(* ------------------------------ lock state ----------------------------- *)

\* [error, reason]: error is 1 when gitdir_path/locked exists, else 0
git_worktree__is_locked(f, w) ==
    LET path == git_str_joinpath(w.gitdir_path, <<"locked">>)
        locked == git_fs_path_exists(f, path)
    IN [error |-> IF locked THEN 1 ELSE 0,
        reason |-> IF locked THEN git_futils_readbuffer(f, path)[1] ELSE ""]

git_worktree_is_locked(f, w) == git_worktree__is_locked(f, w)

(* ------------------------------ open / lookup -------------------------- *)

git_fs_path_prettify_dir(path) == git_fs_path_apply_relative(<<>>, path)

\* [error, out]
open_worktree_dir(f, parent, dir, name) ==
    IF ~is_worktree_private_directory(f, dir)
    THEN [error |-> -1, out |-> NULL]
    ELSE
    Then(git_worktree__read_link(f, dir, "commondir"), LAMBDA commondir :
    Then(git_worktree__read_link(f, dir, "gitdir"), LAMBDA gitlink :
    IF commondir = NULL \/ gitlink = NULL
    THEN [error |-> -1, out |-> NULL]
    ELSE
    Then([name |-> name,
          commondir_path |-> commondir.path,
          gitlink_path |-> gitlink.path,
          parent_path |-> parent,
          worktree_path |-> git_fs_path_dirname(gitlink.path),
          gitdir_path |-> git_fs_path_prettify_dir(dir),
          locked |-> FALSE], LAMBDA w0 :
    [error |-> 0,
     out |-> [w0 EXCEPT !.locked = git_worktree_is_locked(f, w0).error # 0]])))

RECURSIVE lookup_foreach(_, _, _, _)
lookup_foreach(f, worktrees, i, name) ==
    IF i > Len(worktrees) THEN [ret |-> -1, out |-> NULL]
    ELSE LET path == git_str_joinpath(WorktreesDir, <<worktrees[i]>>) IN
         IF is_worktree_private_directory(f, path)
         THEN Then(get_worktree_gitdir_from_private_directory(f, path),
                   LAMBDA wd :
              LET basename1 == git_fs_path_basename(wd.out)
                  basename2 == git_fs_path_basename(name)
              IN IF wd.error < 0 THEN [ret |-> wd.error, out |-> NULL]
                 ELSE IF basename1 = basename2
                 THEN Then(open_worktree_dir(f, [path |-> RepoWorkdir],
                                             path, name), LAMBDA o :
                      IF o.error < 0 THEN [ret |-> o.error, out |-> NULL]
                      ELSE [ret |-> 0, out |-> o.out])
                 ELSE lookup_foreach(f, worktrees, i + 1, name))
         ELSE lookup_foreach(f, worktrees, i + 1, name)

\* [ret, out].  found is the value the uninitialised local `found` holds
\* when worktrees/ is absent or empty and the loop is never entered.
git_worktree_lookup(f, name, found) ==
    IF ~git_fs_path_exists(f, WorktreesDir)
       \/ git_fs_path_is_empty_dir(f, WorktreesDir)
    THEN [ret |-> IF found = 0 THEN -1 ELSE 0, out |-> NULL]
    ELSE lookup_foreach(f, git_fs_path_dirload(f, WorktreesDir), 1, name)

(* ------------------------------ list ----------------------------------- *)

git_vector_remove(v, i) == SubSeq(v, 1, i - 1) \o SubSeq(v, i + 1, Len(v))

\* git_vector_foreach with the index i advancing after every iteration,
\* also after one that removed element i
RECURSIVE list_foreach(_, _, _)
list_foreach(f, worktrees, i) ==
    IF i > Len(worktrees) THEN worktrees
    ELSE LET path == git_str_joinpath(WorktreesDir, <<worktrees[i]>>) IN
         IF ~is_worktree_private_directory(f, path)
         THEN list_foreach(f, git_vector_remove(worktrees, i), i + 1)
         ELSE list_foreach(f, worktrees, i + 1)

\* a list that reports an error where worktrees/ is absent or empty: C12
\* must tell it from git_worktree_list
list_failing_on_empty(f) ==
    IF ~git_fs_path_exists(f, WorktreesDir)
       \/ git_fs_path_is_empty_dir(f, WorktreesDir)
    THEN [error |-> -1, strings |-> <<>>]
    ELSE [error |-> 0,
          strings |-> list_foreach(f, git_fs_path_dirload(f, WorktreesDir), 1)]

\* [error, strings]
git_worktree_list(f) ==
    IF ~git_fs_path_exists(f, WorktreesDir)
       \/ git_fs_path_is_empty_dir(f, WorktreesDir)
    THEN [error |-> 0, strings |-> <<>>]
    ELSE [error |-> 0,
          strings |-> list_foreach(f, git_fs_path_dirload(f, WorktreesDir), 1)]

(* ------------------------------ writing -------------------------------- *)

IsAdminFile(path) ==
    /\ StartsWith(path, WorktreesDir)
    /\ Len(After(path, WorktreesDir)) = 2
    /\ After(path, WorktreesDir)[2] \in AdminFiles

IsGitlink(path) ==
    /\ ~StartsWith(path, CommonDir)
    /\ Len(path) > 1
    /\ git_fs_path_basename(path) = ".git"

\* creates or truncates the file at path; the directory must exist
p_creat(f, path, content) ==
    IF ~git_fs_path_exists(f, git_fs_path_dirname(path))
    THEN [error |-> -1, fs |-> f]
    ELSE IF IsAdminFile(path)
    THEN LET r == After(path, WorktreesDir) IN
         [error |-> 0,
          fs |-> [f EXCEPT !.admin[r[1]][r[2]] = <<content>>]]
    ELSE IF IsGitlink(path)
    THEN [error |-> 0,
          fs |-> [f EXCEPT !.work[git_fs_path_dirname(path)].gitlink =
                               <<content>>]]
    ELSE [error |-> -1, fs |-> f]

\* git_futils_writebuffer with O_CREAT|O_EXCL|O_WRONLY
git_futils_writebuffer(f, path, content) ==
    IF git_fs_path_exists(f, path) THEN [error |-> -1, fs |-> f]
    ELSE p_creat(f, path, content)

write_wtfile(f, base, file, buf) ==
    git_futils_writebuffer(f, git_str_joinpath(base, <<file>>), buf)

p_unlink(f, path) ==
    IF ~git_fs_path_exists(f, path) THEN [error |-> -1, fs |-> f]
    ELSE IF IsAdminFile(path)
    THEN LET r == After(path, WorktreesDir) IN
         [error |-> 0, fs |-> [f EXCEPT !.admin[r[1]][r[2]] = NoFile]]
    ELSE IF IsGitlink(path)
    THEN [error |-> 0,
          fs |-> [f EXCEPT !.work[git_fs_path_dirname(path)].gitlink = NoFile]]
    ELSE [error |-> -1, fs |-> f]

Without(fn, x) == [y \in (DOMAIN fn) \ {x} |-> fn[y]]
InsertAt(s, pos, x) == SubSeq(s, 1, pos - 1) \o <<x>> \o SubSeq(s, pos, Len(s))
SelectOut(s, x) == SelectSeq(s, LAMBDA e : e # x)

\* git_futils_mkdir with GIT_MKDIR_EXCL: an existing directory is an error.
\* pos is where the directory's enumeration will show a new worktrees entry.
git_futils_mkdir(f, path, pos) ==
    IF git_fs_path_exists(f, path) THEN [error |-> GIT_EEXISTS, fs |-> f]
    ELSE IF path = WorktreesDir
    THEN [error |-> 0, fs |-> [f EXCEPT !.worktrees = TRUE]]
    ELSE IF StartsWith(path, WorktreesDir)
    THEN IF Len(After(path, WorktreesDir)) = 1 /\ f.worktrees
         THEN LET n == After(path, WorktreesDir)[1] IN
              [error |-> 0,
               fs |-> [f EXCEPT !.admin = (n :> EmptyAdmin) @@ @,
                                !.entries = InsertAt(@, pos, n)]]
         ELSE [error |-> -1, fs |-> f]
    ELSE [error |-> 0,
          fs |-> [f EXCEPT !.work = (path :> [gitlink |-> NoFile]) @@ @]]

\* git_futils_rmdir_r with GIT_RMDIR_REMOVE_FILES
git_futils_rmdir_r(f, path) ==
    IF ~git_fs_path_exists(f, path) THEN [error |-> -1, fs |-> f]
    ELSE IF StartsWith(path, WorktreesDir)
    THEN LET r == After(path, WorktreesDir) IN
         IF Len(r) = 1
         THEN [error |-> 0,
               fs |-> [f EXCEPT !.admin = Without(@, r[1]),
                                !.entries = SelectOut(@, r[1])]]
         ELSE [error |-> -1, fs |-> f]
    ELSE IF path \in DOMAIN f.work
    THEN [error |-> 0, fs |-> [f EXCEPT !.work = Without(@, path)]]
    ELSE [error |-> -1, fs |-> f]

(* ------------------------------ references ----------------------------- *)

Branch(b) == [kind |-> "heads", name |-> b]
MainHead == Branch("main")

git_reference_is_branch(ref) == ref.kind = "heads"

\* whether ref is the HEAD of the main repository or of a worktree
git_branch_is_checked_out(f, ref) ==
    \/ ref = MainHead
    \/ \E n \in DOMAIN f.admin : f.admin[n].HEAD = <<ref>>

\* git_branch_create without force: [error, branches]
git_branch_create(br, name) ==
    IF name \in br THEN [error |-> GIT_EEXISTS, branches |-> br]
    ELSE [error |-> 0, branches |-> br \cup {name}]

(* ------------------------------ add ------------------------------------ *)

Int8(x) == ((x + 128) % 256) - 128

\* the loop that picks the name of the admin directory: every collision
\* appends the suffix to the name tried last, then increments the suffix
RECURSIVE private_subdir_name(_, _, _)
private_subdir_name(f, name, suffix) ==
    IF git_fs_path_exists(f, git_str_joinpath(WorktreesDir, <<name>>))
    THEN private_subdir_name(f, name \o ToString(suffix), Int8(suffix + 1))
    ELSE name

AddResult(err, f, br, out) ==
    [err |-> err, fs |-> f, branches |-> br, out |-> out]

\* the steps of add after both directories exist
add_populate(f, br, name, worktree, gitdir, wddir, opts) ==
    Then(IF opts.lock
         THEN p_creat(f, git_str_joinpath(gitdir, <<"locked">>), "")
         ELSE [error |-> 0, fs |-> f], LAMBDA f4 :
    IF f4.error < 0 THEN AddResult(f4.error, f4.fs, br, NULL) ELSE
    Then(write_wtfile(f4.fs, wddir, ".git", [gitdir |-> gitdir]), LAMBDA f5 :
    IF f5.error < 0 THEN AddResult(f5.error, f5.fs, br, NULL) ELSE
    Then(write_wtfile(f5.fs, gitdir, "commondir",
                      LinkText(TRUE, git_fs_path_prettify_dir(CommonDir), TRUE)),
         LAMBDA f6 :
    IF f6.error < 0 THEN AddResult(f6.error, f6.fs, br, NULL) ELSE
    Then(write_wtfile(f6.fs, gitdir, "gitdir",
                      LinkText(TRUE, git_str_joinpath(wddir, <<".git">>), TRUE)),
         LAMBDA f7 :
    IF f7.error < 0 THEN AddResult(f7.error, f7.fs, br, NULL) ELSE
    Then(IF opts.ref # NULL THEN [error |-> 0, branches |-> br]
         ELSE git_branch_create(br, name), LAMBDA b :
    IF b.error < 0 THEN AddResult(b.error, f7.fs, br, NULL) ELSE
    \* git_repository_create_head
    Then(p_creat(f7.fs, git_str_joinpath(gitdir, <<"HEAD">>),
                 IF opts.ref # NULL THEN opts.ref ELSE Branch(name)),
         LAMBDA f8 :
    IF f8.error < 0 THEN AddResult(f8.error, f8.fs, b.branches, NULL) ELSE
    \* git_repository_open and git_checkout_head change nothing modelled here
    Then(git_worktree_lookup(f8.fs, worktree, 0), LAMBDA lk :
    AddResult(lk.ret, f8.fs, b.branches, lk.out))))))))

\* an add that makes worktrees/ before it looks at wtopts.ref: C19 must tell
\* it from git_worktree_add
add_creating_worktrees_first(f, br, name, worktree, opts, pos) ==
    Then(IF ~git_fs_path_exists(f, WorktreesDir)
         THEN git_futils_mkdir(f, WorktreesDir, 1)
         ELSE [error |-> 0, fs |-> f], LAMBDA f1 :
    IF f1.error < 0 THEN AddResult(f1.error, f1.fs, br, NULL) ELSE
    IF opts.ref # NULL /\ ~git_reference_is_branch(opts.ref)
    THEN AddResult(-1, f1.fs, br, NULL)
    ELSE IF opts.ref # NULL /\ git_branch_is_checked_out(f1.fs, opts.ref)
    THEN AddResult(-1, f1.fs, br, NULL)
    ELSE
    Then(git_str_joinpath(WorktreesDir,
             <<private_subdir_name(f1.fs, git_fs_path_basename(worktree), 1)>>),
         LAMBDA gitdir :
    Then(git_futils_mkdir(f1.fs, gitdir, pos), LAMBDA f2 :
    IF f2.error < 0 THEN AddResult(f2.error, f2.fs, br, NULL) ELSE
    Then(git_futils_mkdir(f2.fs, worktree, 1), LAMBDA f3 :
    IF f3.error < 0 THEN AddResult(f3.error, f3.fs, br, NULL) ELSE
    add_populate(f3.fs, br, name, worktree, git_fs_path_prettify_dir(gitdir),
                 git_fs_path_prettify_dir(worktree), opts)))))

\* [err, fs, branches, out]
git_worktree_add(f, br, name, worktree, opts, pos) ==
    IF opts.ref # NULL /\ ~git_reference_is_branch(opts.ref)
    THEN AddResult(-1, f, br, NULL)
    ELSE IF opts.ref # NULL /\ git_branch_is_checked_out(f, opts.ref)
    THEN AddResult(-1, f, br, NULL)
    ELSE
    Then(IF ~git_fs_path_exists(f, WorktreesDir)
         THEN git_futils_mkdir(f, WorktreesDir, 1)
         ELSE [error |-> 0, fs |-> f], LAMBDA f1 :
    IF f1.error < 0 THEN AddResult(f1.error, f1.fs, br, NULL) ELSE
    Then(git_str_joinpath(WorktreesDir,
             <<private_subdir_name(f1.fs, git_fs_path_basename(worktree), 1)>>),
         LAMBDA gitdir :
    Then(git_futils_mkdir(f1.fs, gitdir, pos), LAMBDA f2 :
    IF f2.error < 0 THEN AddResult(f2.error, f2.fs, br, NULL) ELSE
    Then(git_futils_mkdir(f2.fs, worktree, 1), LAMBDA f3 :
    IF f3.error < 0 THEN AddResult(f3.error, f3.fs, br, NULL) ELSE
    add_populate(f3.fs, br, name, worktree, git_fs_path_prettify_dir(gitdir),
                 git_fs_path_prettify_dir(worktree), opts)))))

(* ------------------------------ lock / unlock -------------------------- *)

\* a lock that writes the file and leaves the locked flag of the Worktree
\* as it was: C7 must tell it from git_worktree_lock
lock_keeping_flag(f, w, reason) ==
    IF git_worktree_is_locked(f, w).error # 0
    THEN [error |-> GIT_ELOCKED, fs |-> f, wt |-> w]
    ELSE Then(git_futils_writebuffer(f, git_str_joinpath(w.gitdir_path, <<"locked">>),
                                     IF reason = <<>> THEN "" ELSE reason[1]),
              LAMBDA r :
         IF r.error < 0 THEN [error |-> r.error, fs |-> f, wt |-> w]
         ELSE [error |-> 0, fs |-> r.fs, wt |-> w])

\* [error, fs, wt]
git_worktree_lock(f, w, reason) ==
    IF git_worktree_is_locked(f, w).error # 0
    THEN [error |-> GIT_ELOCKED, fs |-> f, wt |-> w]
    ELSE LET path == git_str_joinpath(w.gitdir_path, <<"locked">>)
             buf == IF reason = <<>> THEN "" ELSE reason[1]
         IN Then(git_futils_writebuffer(f, path, buf), LAMBDA r :
            IF r.error < 0 THEN [error |-> r.error, fs |-> f, wt |-> w]
            ELSE [error |-> 0, fs |-> r.fs, wt |-> [w EXCEPT !.locked = TRUE]])

\* an unlock that reports success on a worktree that is not locked: C6 must
\* tell it from git_worktree_unlock
unlock_silently(f, w) ==
    IF git_worktree_is_locked(f, w).error = 0
    THEN [error |-> 0, fs |-> f, wt |-> w]
    ELSE Then(p_unlink(f, git_str_joinpath(w.gitdir_path, <<"locked">>)),
              LAMBDA r :
         IF r.error # 0 THEN [error |-> -1, fs |-> f, wt |-> w]
         ELSE [error |-> 0, fs |-> r.fs, wt |-> [w EXCEPT !.locked = FALSE]])

\* [error, fs, wt]
git_worktree_unlock(f, w) ==
    IF git_worktree_is_locked(f, w).error = 0
    THEN [error |-> 1, fs |-> f, wt |-> w]
    ELSE Then(p_unlink(f, git_str_joinpath(w.gitdir_path, <<"locked">>)),
              LAMBDA r :
         IF r.error # 0 THEN [error |-> -1, fs |-> f, wt |-> w]
         ELSE [error |-> 0, fs |-> r.fs, wt |-> [w EXCEPT !.locked = FALSE]])

(* ------------------------------ validate / prune ----------------------- *)

\* a validate that does not look at the working directory: C13 must tell
\* it from git_worktree_validate
validate_without_workdir(f, w) ==
    IF ~is_worktree_private_directory(f, w.gitdir_path) THEN GIT_ERROR
    ELSE IF w.parent_path # NULL /\ ~git_fs_path_exists(f, w.parent_path.path)
    THEN GIT_ERROR
    ELSE IF ~git_fs_path_exists(f, w.commondir_path) THEN GIT_ERROR
    ELSE 0

git_worktree_validate(f, w) ==
    IF ~is_worktree_private_directory(f, w.gitdir_path) THEN GIT_ERROR
    ELSE IF w.parent_path # NULL /\ ~git_fs_path_exists(f, w.parent_path.path)
    THEN GIT_ERROR
    ELSE IF ~git_fs_path_exists(f, w.commondir_path) THEN GIT_ERROR
    ELSE IF ~git_fs_path_exists(f, w.worktree_path) THEN GIT_ERROR
    ELSE 0

\* the message git_worktree_validate hands to git_error_set, "" when it
\* sets none
validate_error_message(f, w) ==
    IF ~is_worktree_private_directory(f, w.gitdir_path)
    THEN "worktree gitdir is not valid"
    ELSE IF w.parent_path # NULL /\ ~git_fs_path_exists(f, w.parent_path.path)
    THEN "worktree parent directory does not exist"
    ELSE IF ~git_fs_path_exists(f, w.commondir_path)
    THEN "worktree common directory does not exist"
    ELSE IF ~git_fs_path_exists(f, w.worktree_path)
    THEN "worktree directory does not exist"
    ELSE ""

\* an is_prunable without the lock guard: C4 must tell it from
\* git_worktree_is_prunable
is_prunable_without_lock_guard(f, w, opts) ==
    IF ~opts.valid /\ git_worktree_validate(f, w) = 0 THEN 0
    ELSE 1

\* opts holds the flags GIT_WORKTREE_PRUNE_LOCKED, _VALID and _WORKING_TREE
git_worktree_is_prunable(f, w, opts) ==
    IF ~opts.locked /\ git_worktree__is_locked(f, w).error # 0 THEN 0
    ELSE IF ~opts.valid /\ git_worktree_validate(f, w) = 0 THEN 0
    ELSE 1

\* a prune that does not ask is_prunable: C5 must tell it from
\* git_worktree_prune
prune_unchecked(f, w, opts) ==
    LET path == git_str_join3(w.commondir_path, <<"worktrees">>, w.name) IN
    IF ~git_fs_path_exists(f, path) THEN [err |-> -1, fs |-> f] ELSE
    Then(git_futils_rmdir_r(f, path), LAMBDA r1 :
    IF r1.error < 0 THEN [err |-> r1.error, fs |-> r1.fs] ELSE
    IF ~opts.working_tree \/ ~git_fs_path_exists(r1.fs, w.gitlink_path)
    THEN [err |-> 0, fs |-> r1.fs] ELSE
    Then(git_futils_rmdir_r(r1.fs, git_fs_path_dirname(w.gitlink_path)),
         LAMBDA r2 : [err |-> r2.error, fs |-> r2.fs]))

\* [err, fs]
git_worktree_prune(f, w, opts) ==
    IF git_worktree_is_prunable(f, w, opts) = 0 THEN [err |-> -1, fs |-> f]
    ELSE
    LET path == git_str_join3(w.commondir_path, <<"worktrees">>, w.name) IN
    IF ~git_fs_path_exists(f, path) THEN [err |-> -1, fs |-> f] ELSE
    Then(git_futils_rmdir_r(f, path), LAMBDA r1 :
    IF r1.error < 0 THEN [err |-> r1.error, fs |-> r1.fs] ELSE
    IF ~opts.working_tree \/ ~git_fs_path_exists(r1.fs, w.gitlink_path)
    THEN [err |-> 0, fs |-> r1.fs] ELSE
    LET wtpath == git_fs_path_dirname(w.gitlink_path) IN
    IF ~git_fs_path_exists(r1.fs, wtpath) THEN [err |-> -1, fs |-> r1.fs] ELSE
    Then(git_futils_rmdir_r(r1.fs, wtpath), LAMBDA r2 :
    [err |-> r2.error, fs |-> r2.fs]))

(* ------------------------------ open from repository ------------------ *)

\* repo is a repository opened at the working directory workdir, or the main
\* repository when workdir is RepoWorkdir: [error, out]
git_worktree_open_from_repository(f, workdir) ==
    IF workdir = RepoWorkdir THEN [error |-> -1, out |-> NULL]
    ELSE LET gitdir == f.work[workdir].gitlink[1].gitdir
             commondir == git_worktree__read_link(f, gitdir, "commondir").path
             parent == git_fs_path_apply_relative(commondir, <<"..">>)
             name == <<git_fs_path_basename(gitdir)>>
         IN open_worktree_dir(f, [path |-> parent], gitdir, name)

\* git_repository_open succeeds on workdir
CanOpenRepository(f, workdir) ==
    \/ workdir = RepoWorkdir
    \/ /\ workdir \in DOMAIN f.work
       /\ f.work[workdir].gitlink # NoFile
       /\ is_worktree_private_directory(f, f.work[workdir].gitlink[1].gitdir)

(* ------------------------------ the calls ------------------------------ *)

\* the explicit references tried are a tag and the branch the main
\* repository has checked out
AddOptions == [ref : {NULL, Tag, MainHead}, lock : BOOLEAN]
PruneOptions ==
    [locked : BOOLEAN, valid : BOOLEAN, working_tree : BOOLEAN]
LookupNames == {<<"a">>, <<"a1">>, <<"f">>}

\* the processes that run add one filesystem call at a time, and a process
\* that has not called add
Procs == {1, 2}
IdleAdd == [pc |-> "idle", at |-> "", name |-> "", worktree |-> <<>>,
            opts |-> [ref |-> NULL, lock |-> FALSE], subdir |-> "",
            suffix |-> 1, gitdir |-> <<>>, wddir |-> <<>>, err |-> 0]

Init ==
    /\ fs = [worktrees |-> FALSE, entries |-> <<>>, admin |-> <<>>,
             work |-> <<>>]
    /\ branches = {"main"}
    /\ wt = NULL
    /\ last = [op |-> "init", ret |-> 0]
    /\ adds = [p \in Procs |-> IdleAdd]

Add(name, worktree, opts, pos) ==
    /\ Len(fs.entries) < MaxAdmin
    /\ \E r \in {git_worktree_add(fs, branches, name, worktree, opts, pos)} :
       /\ fs' = r.fs
       /\ branches' = r.branches
       /\ wt' = r.out
       /\ last' = [op |-> "add", ret |-> r.err]
    /\ UNCHANGED adds

Lookup(name, found) ==
    /\ \E r \in {git_worktree_lookup(fs, name, found)} :
       /\ wt' = r.out
       /\ last' = [op |-> "lookup", ret |-> r.ret]
    /\ UNCHANGED <<fs, branches, adds>>

List ==
    /\ \E r \in {git_worktree_list(fs)} :
       last' = [op |-> "list", ret |-> r.error, res |-> r.strings]
    /\ UNCHANGED <<fs, branches, wt, adds>>

OpenFromRepository(workdir) ==
    /\ CanOpenRepository(fs, workdir)
    /\ \E r \in {git_worktree_open_from_repository(fs, workdir)} :
       /\ wt' = r.out
       /\ last' = [op |-> "open_from_repository", ret |-> r.error]
    /\ UNCHANGED <<fs, branches, adds>>

Lock(reason) ==
    /\ wt # NULL
    /\ \E r \in {git_worktree_lock(fs, wt, reason)} :
       /\ fs' = r.fs
       /\ wt' = r.wt
       /\ last' = [op |-> "lock", ret |-> r.error]
    /\ UNCHANGED <<branches, adds>>

Unlock ==
    /\ wt # NULL
    /\ \E r \in {git_worktree_unlock(fs, wt)} :
       /\ fs' = r.fs
       /\ wt' = r.wt
       /\ last' = [op |-> "unlock", ret |-> r.error]
    /\ UNCHANGED <<branches, adds>>

IsLocked ==
    /\ wt # NULL
    /\ \E r \in {git_worktree_is_locked(fs, wt)} :
       last' = [op |-> "is_locked", ret |-> r.error, res |-> r.reason]
    /\ UNCHANGED <<fs, branches, wt, adds>>

Validate ==
    /\ wt # NULL
    /\ last' = [op |-> "validate", ret |-> git_worktree_validate(fs, wt),
                res |-> validate_error_message(fs, wt)]
    /\ UNCHANGED <<fs, branches, wt, adds>>

IsPrunable(opts) ==
    /\ wt # NULL
    /\ last' = [op |-> "is_prunable",
                ret |-> git_worktree_is_prunable(fs, wt, opts)]
    /\ UNCHANGED <<fs, branches, wt, adds>>

Prune(opts) ==
    /\ wt # NULL
    /\ \E r \in {git_worktree_prune(fs, wt, opts)} :
       /\ fs' = r.fs
       /\ last' = [op |-> "prune", ret |-> r.err]
    /\ UNCHANGED <<branches, wt, adds>>

\* the user deletes a working directory outside this interface
ExternalRemoveWorkdir(workdir) ==
    /\ workdir \in DOMAIN fs.work
    /\ fs' = [fs EXCEPT !.work = Without(@, workdir)]
    /\ last' = [op |-> "external", ret |-> 0]
    /\ UNCHANGED <<branches, wt, adds>>

\* the user deletes the .git file of a working directory
ExternalRemoveGitlink(workdir) ==
    /\ workdir \in DOMAIN fs.work
    /\ fs.work[workdir].gitlink # NoFile
    /\ fs' = [fs EXCEPT !.work[workdir].gitlink = NoFile]
    /\ last' = [op |-> "external", ret |-> 0]
    /\ UNCHANGED <<branches, wt, adds>>

Next ==
    \/ \E call \in AddCalls, opts \in AddOptions,
          pos \in 1..(Len(fs.entries) + 1) :
          Add(call.name, call.worktree, opts, pos)
    \/ \E name \in LookupNames, found \in {0, 1} : Lookup(name, found)
    \/ List
    \/ \E workdir \in WorktreeDirs \cup {RepoWorkdir} : OpenFromRepository(workdir)
    \/ \E reason \in Reasons : Lock(reason)
    \/ Unlock
    \/ IsLocked
    \/ Validate
    \/ \E opts \in PruneOptions : IsPrunable(opts)
    \/ \E opts \in PruneOptions : Prune(opts)
    \/ \E workdir \in WorktreeDirs : ExternalRemoveWorkdir(workdir)
    \/ \E workdir \in WorktreeDirs : ExternalRemoveGitlink(workdir)

Spec == Init /\ [][Next]_vars

(* ------------------------------ naming --------------------------------- *)

\* add applied to repositories whose worktrees/ already holds any of the
\* directories NamingDirs, as adds that stopped at the working directory
\* leave them
MaxNamed == 5
NamingDirs == <<"a", "a1", "a12", "a2">>

NamingInit ==
    /\ \E S \in SUBSET Range(NamingDirs) :
          fs = [worktrees |-> TRUE,
                entries |-> SelectSeq(NamingDirs, LAMBDA n : n \in S),
                admin |-> [n \in S |-> EmptyAdmin],
                work |-> <<>>]
    /\ branches = {"main"}
    /\ wt = NULL
    /\ last = [op |-> "init", ret |-> 0]
    /\ adds = [p \in Procs |-> IdleAdd]

NamingAdd(name, worktree, opts, pos) ==
    /\ Len(fs.entries) < MaxNamed
    /\ \E r \in {git_worktree_add(fs, branches, name, worktree, opts, pos)} :
       /\ fs' = r.fs
       /\ branches' = r.branches
       /\ wt' = r.out
       /\ last' = [op |-> "add", ret |-> r.err]
    /\ UNCHANGED adds

NamingNext ==
    \E call \in AddCalls, opts \in AddOptions,
       pos \in 1..(Len(fs.entries) + 1) :
       NamingAdd(call.name, call.worktree, opts, pos)

SpecNaming == NamingInit /\ [][NamingNext]_vars

(* ------------------------------ add, call by call -------------------- *)

\* git_worktree_add run by the processes Procs one filesystem call at a
\* time.  adds[p].pc is the call process p makes next, "out" once add has
\* returned adds[p].err; adds[p].at is the call that failed.  The
\* repository the processes start on has or lacks worktrees/, a directory
\* worktrees/a left by an earlier add, the directory /p/a and the branch a.
StepsInit ==
    /\ \E w \in BOOLEAN, S \in SUBSET {"a"}, W \in SUBSET {<<"p", "a">>} :
          /\ S # {} => w
          /\ fs = [worktrees |-> w,
                   entries |-> SelectSeq(NamingDirs, LAMBDA n : n \in S),
                   admin |-> [n \in S |-> EmptyAdmin],
                   work |-> [d \in W |-> [gitlink |-> NoFile]]]
    /\ branches \in {{"main"}, {"main", "a"}}
    /\ wt = NULL
    /\ last = [op |-> "init", ret |-> 0]
    /\ adds = [p \in Procs |-> IdleAdd]

\* calls in an order that writes the locked marker after the link files:
\* C15 must tell it from NextCall
next_call_locking_late(pc, opts) ==
    CASE pc = "admin" -> "workdir"
      [] pc = "workdir" -> "gitfile"
      [] pc = "gitfile" -> "commondir"
      [] pc = "commondir" -> "gitdir"
      [] pc = "gitdir" -> IF opts.lock THEN "locked" ELSE "ref"
      [] pc = "locked" -> "ref"
      [] pc = "ref" -> "head"
      [] pc = "head" -> "checkout"
      [] pc = "checkout" -> "lookup"
      [] OTHER -> "out"

\* the call that follows the call pc once the admin directory is named
NextCall(pc, opts) ==
    CASE pc = "admin" -> "workdir"
      [] pc = "workdir" -> IF opts.lock THEN "locked" ELSE "gitfile"
      [] pc = "locked" -> "gitfile"
      [] pc = "gitfile" -> "commondir"
      [] pc = "commondir" -> "gitdir"
      [] pc = "gitdir" -> "ref"
      [] pc = "ref" -> "head"
      [] pc = "head" -> "checkout"
      [] pc = "checkout" -> "lookup"
      [] OTHER -> "out"

Goto(p, pc) == adds' = [adds EXCEPT ![p].pc = pc]
Proceed(p) == Goto(p, NextCall(adds[p].pc, adds[p].opts))
Fail(p, err) ==
    adds' = [adds EXCEPT ![p].pc = "out", ![p].at = adds[p].pc, ![p].err = err]

\* the checks of wtopts.ref before anything is created
StepStart(p, name, worktree, opts) ==
    /\ adds[p].pc = "idle"
    /\ LET refused == /\ opts.ref # NULL
                      /\ \/ ~git_reference_is_branch(opts.ref)
                         \/ git_branch_is_checked_out(fs, opts.ref)
       IN adds' = [adds EXCEPT ![p] =
                     [IdleAdd EXCEPT !.name = name, !.worktree = worktree,
                                     !.opts = opts,
                                     !.pc = IF refused THEN "out" ELSE "worktrees",
                                     !.at = IF refused THEN "idle" ELSE "",
                                     !.err = IF refused THEN -1 ELSE 0]]
    /\ UNCHANGED <<fs, branches, wt, last>>

StepWorktreesExists(p) ==
    /\ adds[p].pc = "worktrees"
    /\ IF git_fs_path_exists(fs, WorktreesDir)
       THEN adds' = [adds EXCEPT ![p].pc = "name",
                       ![p].subdir = git_fs_path_basename(adds[p].worktree)]
       ELSE Goto(p, "worktrees_mkdir")
    /\ UNCHANGED <<fs, branches, wt, last>>

StepWorktreesMkdir(p) ==
    /\ adds[p].pc = "worktrees_mkdir"
    /\ \E r \in {git_futils_mkdir(fs, WorktreesDir, 1)} :
          /\ fs' = r.fs
          /\ IF r.error < 0 THEN Fail(p, r.error)
             ELSE adds' = [adds EXCEPT ![p].pc = "name",
                       ![p].subdir = git_fs_path_basename(adds[p].worktree)]
    /\ UNCHANGED <<branches, wt, last>>

\* one iteration of the loop that picks the name of the admin directory
StepName(p) ==
    /\ adds[p].pc = "name"
    /\ IF git_fs_path_exists(fs, git_str_joinpath(WorktreesDir, <<adds[p].subdir>>))
       THEN adds' = [adds EXCEPT
                       ![p].subdir = @ \o ToString(adds[p].suffix),
                       ![p].suffix = Int8(@ + 1)]
       ELSE adds' = [adds EXCEPT ![p].pc = "admin",
                       ![p].gitdir = git_str_joinpath(WorktreesDir, <<adds[p].subdir>>)]
    /\ UNCHANGED <<fs, branches, wt, last>>

\* an admin call that takes an existing directory for its own, as a mkdir
\* without GIT_MKDIR_EXCL would: C20 must tell it from StepAdmin
admin_ignoring_exists(p, pos) ==
    /\ adds[p].pc = "admin"
    /\ \E r \in {git_futils_mkdir(fs, adds[p].gitdir, pos)} :
          /\ fs' = r.fs
          /\ IF r.error < 0 /\ r.error # GIT_EEXISTS THEN Fail(p, r.error)
             ELSE adds' = [adds EXCEPT
                       ![p].pc = NextCall("admin", adds[p].opts),
                       ![p].gitdir = git_fs_path_prettify_dir(@)]
    /\ UNCHANGED <<branches, wt, last>>

StepAdmin(p, pos) ==
    /\ adds[p].pc = "admin"
    /\ \E r \in {git_futils_mkdir(fs, adds[p].gitdir, pos)} :
          /\ fs' = r.fs
          /\ IF r.error < 0 THEN Fail(p, r.error)
             ELSE adds' = [adds EXCEPT
                       ![p].pc = NextCall("admin", adds[p].opts),
                       ![p].gitdir = git_fs_path_prettify_dir(@)]
    /\ UNCHANGED <<branches, wt, last>>

StepWorkdir(p) ==
    /\ adds[p].pc = "workdir"
    /\ \E r \in {git_futils_mkdir(fs, adds[p].worktree, 1)} :
          /\ fs' = r.fs
          /\ IF r.error < 0 THEN Fail(p, r.error)
             ELSE adds' = [adds EXCEPT
                       ![p].pc = NextCall("workdir", adds[p].opts),
                       ![p].wddir = git_fs_path_prettify_dir(adds[p].worktree)]
    /\ UNCHANGED <<branches, wt, last>>

\* a marker step that creates no file: C16 must tell it from StepLocked
locked_not_created(p) ==
    /\ adds[p].pc = "locked"
    /\ Proceed(p)
    /\ UNCHANGED <<fs, branches, wt, last>>

StepLocked(p) ==
    /\ adds[p].pc = "locked"
    /\ \E r \in {p_creat(fs, git_str_joinpath(adds[p].gitdir, <<"locked">>), "")} :
          /\ fs' = r.fs
          /\ IF r.error < 0 THEN Fail(p, r.error) ELSE Proceed(p)
    /\ UNCHANGED <<branches, wt, last>>

StepGitfile(p) ==
    /\ adds[p].pc = "gitfile"
    /\ \E r \in {write_wtfile(fs, adds[p].wddir, ".git",
                              [gitdir |-> adds[p].gitdir])} :
          /\ fs' = r.fs
          /\ IF r.error < 0 THEN Fail(p, r.error) ELSE Proceed(p)
    /\ UNCHANGED <<branches, wt, last>>

StepCommondir(p) ==
    /\ adds[p].pc = "commondir"
    /\ \E r \in {write_wtfile(fs, adds[p].gitdir, "commondir",
                     LinkText(TRUE, git_fs_path_prettify_dir(CommonDir), TRUE))} :
          /\ fs' = r.fs
          /\ IF r.error < 0 THEN Fail(p, r.error) ELSE Proceed(p)
    /\ UNCHANGED <<branches, wt, last>>

StepGitdir(p) ==
    /\ adds[p].pc = "gitdir"
    /\ \E r \in {write_wtfile(fs, adds[p].gitdir, "gitdir",
                     LinkText(TRUE, git_str_joinpath(adds[p].wddir, <<".git">>),
                              TRUE))} :
          /\ fs' = r.fs
          /\ IF r.error < 0 THEN Fail(p, r.error) ELSE Proceed(p)
    /\ UNCHANGED <<branches, wt, last>>

StepRef(p) ==
    /\ adds[p].pc = "ref"
    /\ \E b \in {IF adds[p].opts.ref # NULL
                 THEN [error |-> 0, branches |-> branches]
                 ELSE git_branch_create(branches, adds[p].name)} :
          /\ branches' = b.branches
          /\ IF b.error < 0 THEN Fail(p, b.error) ELSE Proceed(p)
    /\ UNCHANGED <<fs, wt, last>>

\* git_repository_create_head
StepHead(p) ==
    /\ adds[p].pc = "head"
    /\ \E r \in {p_creat(fs, git_str_joinpath(adds[p].gitdir, <<"HEAD">>),
                         IF adds[p].opts.ref # NULL THEN adds[p].opts.ref
                         ELSE Branch(adds[p].name))} :
          /\ fs' = r.fs
          /\ IF r.error < 0 THEN Fail(p, r.error) ELSE Proceed(p)
    /\ UNCHANGED <<branches, wt, last>>

\* git_repository_open and git_checkout_head: no file modelled here changes
StepCheckout(p) ==
    /\ adds[p].pc = "checkout"
    /\ IF CanOpenRepository(fs, adds[p].wddir) THEN Proceed(p) ELSE Fail(p, -1)
    /\ UNCHANGED <<fs, branches, wt, last>>

\* the lookup that loads the result
StepLookup(p) ==
    /\ adds[p].pc = "lookup"
    /\ \E r \in {git_worktree_lookup(fs, adds[p].worktree, 0)} :
          IF r.ret < 0 THEN Fail(p, r.ret) ELSE Proceed(p)
    /\ UNCHANGED <<fs, branches, wt, last>>

StepsNext ==
    \/ \E p \in Procs, call \in AddCalls, opts \in AddOptions :
          StepStart(p, call.name, call.worktree, opts)
    \/ \E p \in Procs : StepWorktreesExists(p)
    \/ \E p \in Procs : StepWorktreesMkdir(p)
    \/ \E p \in Procs : StepName(p)
    \/ \E p \in Procs, pos \in 1..(Len(fs.entries) + 1) : StepAdmin(p, pos)
    \/ \E p \in Procs : StepWorkdir(p)
    \/ \E p \in Procs : StepLocked(p)
    \/ \E p \in Procs : StepGitfile(p)
    \/ \E p \in Procs : StepCommondir(p)
    \/ \E p \in Procs : StepGitdir(p)
    \/ \E p \in Procs : StepRef(p)
    \/ \E p \in Procs : StepHead(p)
    \/ \E p \in Procs : StepCheckout(p)
    \/ \E p \in Procs : StepLookup(p)

SpecSteps == StepsInit /\ [][StepsNext]_vars

(* ------------------------------ properties ----------------------------- *)

AdminPath(n) == git_str_joinpath(WorktreesDir, <<n>>)
LockedFile(f, w) ==
    git_fs_path_exists(f, git_str_joinpath(w.gitdir_path, <<"locked">>))
DefaultAddOptions == [ref |-> NULL, lock |-> FALSE]

\* C1: after add(repo, name, worktree_dir, {}) succeeds, lookup(repo, name)
\* succeeds and returns a Worktree whose worktree_path is worktree_dir and
\* whose locked flag is false, for every name and worktree_dir.
C1_AddThenLookup ==
    [][\A call \in AddCalls, pos \in 1..(Len(fs.entries) + 1) :
         (Add(call.name, call.worktree, DefaultAddOptions, pos) /\ last'.ret = 0)
         => LET r == git_worktree_lookup(fs', <<call.name>>, 0) IN
            /\ r.ret = 0
            /\ r.out # NULL
            /\ r.out.worktree_path = call.worktree
            /\ ~r.out.locked]_vars

\* C2: every Worktree that lookup, add or open_from_repository constructs
\* has the name of its admin directory, the last segment of gitdir_path.
C2_NameIsAdminDirName ==
    wt # NULL => wt.name = <<git_fs_path_basename(wt.gitdir_path)>>

\* C3: after a successful prune(wt, options) the admin directory of wt,
\* wt.gitdir_path, no longer exists; without remove_working_tree the working
\* directories are untouched; with it, a working directory that still
\* exists is removed too.
C3_PruneRemoves ==
    [][\A opts \in PruneOptions :
         (Prune(opts) /\ last'.ret = 0)
         => /\ ~git_fs_path_exists(fs', wt.gitdir_path)
            /\ (~opts.working_tree => fs'.work = fs.work)
            /\ (opts.working_tree /\ git_fs_path_exists(fs, wt.worktree_path)
                => ~git_fs_path_exists(fs', wt.worktree_path))]_vars

\* C4: is_prunable(wt, options) returns false when the locked file exists
\* and allow_locked is unset, false when validate(wt) succeeds and
\* allow_valid is unset, true in every other case, and changes no file.
C4_IsPrunable ==
    [][\A opts \in PruneOptions :
         IsPrunable(opts)
         => LET lockGuard == LockedFile(fs, wt) /\ ~opts.locked
                validGuard == git_worktree_validate(fs, wt) = 0 /\ ~opts.valid
            IN /\ fs' = fs
               /\ (lockGuard => last'.ret = 0)
               /\ (validGuard => last'.ret = 0)
               /\ (~lockGuard /\ ~validGuard => last'.ret = 1)]_vars

\* a locked, valid worktree was found prunable because both guards were
\* bypassed by the options
C4_Witness ==
    /\ last.op = "is_prunable"
    /\ last.ret = 1
    /\ wt # NULL
    /\ LockedFile(fs, wt)
    /\ git_worktree_validate(fs, wt) = 0

\* C5: when is_prunable(wt, options) is false, prune(wt, options) fails and
\* removes nothing: the filesystem afterwards is the filesystem before.
C5_PruneRefused ==
    [][\A opts \in PruneOptions :
         (Prune(opts) /\ git_worktree_is_prunable(fs, wt, opts) = 0)
         => /\ last'.ret = -1
            /\ fs' = fs]_vars

\* a prune of a locked worktree whose admin directory, named as the
\* Worktree is, and working directory exist has been refused
C5_Witness ==
    /\ last.op = "prune"
    /\ last.ret = -1
    /\ wt # NULL
    /\ LockedFile(fs, wt)
    /\ wt.name = <<git_fs_path_basename(wt.gitdir_path)>>
    /\ git_fs_path_exists(fs, wt.gitdir_path)
    /\ git_fs_path_exists(fs, wt.worktree_path)

\* C6: lock on a worktree whose locked file exists fails with GIT_ELOCKED
\* and leaves the file and its reason unchanged; unlock on a worktree whose
\* locked file does not exist returns 1 and creates or removes nothing.
C6_LockUnlockBoundary ==
    [][/\ \A reason \in Reasons :
            (Lock(reason) /\ LockedFile(fs, wt))
            => (last'.ret = GIT_ELOCKED /\ fs' = fs)
       /\ (Unlock /\ ~LockedFile(fs, wt))
            => (last'.ret = 1 /\ fs' = fs)]_vars

\* a lock refused on a worktree locked with reason "r"
C6_WitnessLock ==
    /\ last.op = "lock"
    /\ last.ret = GIT_ELOCKED
    /\ wt # NULL
    /\ LockedFile(fs, wt)
    /\ git_worktree_is_locked(fs, wt).reason = "r"

ReasonBytes(reason) == IF reason = <<>> THEN "" ELSE reason[1]

\* C7: after a successful lock(wt, reason), is_locked(wt) is true and
\* returns exactly reason (empty when none was given) and wt.locked is true;
\* after a successful unlock(wt), is_locked(wt) is false and wt.locked is
\* false; after either, wt.locked equals the existence of gitdir_path/locked.
C7_LockRoundTrip ==
    [][/\ \A reason \in Reasons :
            (Lock(reason) /\ last'.ret = 0)
            => /\ git_worktree_is_locked(fs', wt').error = 1
               /\ git_worktree_is_locked(fs', wt').reason = ReasonBytes(reason)
               /\ wt'.locked
               /\ wt'.locked = LockedFile(fs', wt')
       /\ (Unlock /\ last'.ret = 0)
            => /\ git_worktree_is_locked(fs', wt').error = 0
               /\ ~wt'.locked
               /\ wt'.locked = LockedFile(fs', wt')]_vars

\* a lock with reason "r" has succeeded through a Worktree whose locked
\* flag was stale before
C7_Witness ==
    /\ last.op = "lock"
    /\ last.ret = 0
    /\ wt # NULL
    /\ wt.locked
    /\ git_worktree_is_locked(fs, wt).reason = "r"

\* C8: when add with lock succeeds, is_locked on the returned Worktree is
\* true with an empty reason and its locked flag is true; when add without
\* lock succeeds, the new admin directory holds no locked file.
C8_AddWithLock ==
    [][\A call \in AddCalls, opts \in AddOptions,
          pos \in 1..(Len(fs.entries) + 1) :
         (Add(call.name, call.worktree, opts, pos) /\ last'.ret = 0)
         => IF opts.lock
            THEN /\ wt' # NULL
                 /\ git_worktree_is_locked(fs', wt').error = 1
                 /\ git_worktree_is_locked(fs', wt').reason = ""
                 /\ wt'.locked
            ELSE \A n \in (DOMAIN fs'.admin) \ (DOMAIN fs.admin) :
                    fs'.admin[n].locked = NoFile]_vars

\* C9: list returns exactly the entries of worktrees/ that are valid admin
\* directories.
C9_ListValidEntries ==
    last.op = "list"
    => Range(last.res) =
         {n \in DOMAIN fs.admin : is_worktree_private_directory(fs, AdminPath(n))}

\* the names a caller may try to look a worktree up by
CandidateNames(f) ==
    {<<n>> : n \in Names \cup DOMAIN f.admin} \cup WorktreeDirs

\* C10: after two successful adds to different directories with the same
\* basename, the second admin directory is named as the first followed by a
\* numeric suffix, and for each of the two worktrees a lookup succeeds and
\* returns it.
C10_CollisionLookups ==
    [][\A call \in AddCalls, opts \in AddOptions,
          pos \in 1..(Len(fs.entries) + 1) :
         LET first == git_fs_path_basename(call.worktree)
             added == (DOMAIN fs'.admin) \ (DOMAIN fs.admin)
         IN (/\ Add(call.name, call.worktree, opts, pos)
             /\ last'.ret = 0
             /\ is_worktree_private_directory(fs, AdminPath(first))
             /\ git_worktree__read_link(fs, AdminPath(first), "gitdir").path
                  # git_str_joinpath(call.worktree, <<".git">>))
            => /\ \A n \in added : \E k \in 1..255 : n = first \o ToString(k)
               /\ \A n \in added \cup {first} :
                    \E lname \in CandidateNames(fs') :
                       LET r == git_worktree_lookup(fs', lname, 0) IN
                       /\ r.ret = 0
                       /\ r.out.gitdir_path = AdminPath(n)]_vars

\* whether the valid admin directory n answers to name: by its own name, or
\* by the basename of its working directory as git_worktree_lookup compares
Matches(f, n, name) ==
    /\ is_worktree_private_directory(f, AdminPath(n))
    /\ \/ n = git_fs_path_basename(name)
       \/ git_fs_path_basename(
              get_worktree_gitdir_from_private_directory(f, AdminPath(n)).out)
            = git_fs_path_basename(name)

\* C11: lookup fails and returns no Worktree whenever no valid admin
\* directory matches the name, also when worktrees/ is absent or empty, and
\* never reports success without having set the output Worktree.
C11_LookupNotFound ==
    [][\A name \in LookupNames, found \in {0, 1} :
         Lookup(name, found)
         => /\ (~\E n \in DOMAIN fs.admin : Matches(fs, n, name))
                 => (last'.ret < 0 /\ wt' = NULL)
            /\ last'.ret = 0 => wt' # NULL]_vars

\* C12: list on a common directory without worktrees/, or with an empty
\* one, returns success with an empty sequence and does not create
\* worktrees/.
C12_ListEmpty ==
    [][(List /\ (~fs.worktrees \/ Len(fs.entries) = 0))
         => /\ last'.ret = 0
            /\ last'.res = <<>>
            /\ fs' = fs]_vars

\* list has answered on a worktrees/ directory that exists and is empty
C12_Witness ==
    /\ last.op = "list"
    /\ last.ret = 0
    /\ last.res = <<>>
    /\ fs.worktrees
    /\ Len(fs.entries) = 0

C14_NameChoice ==
    [][\A call \in AddCalls, opts \in AddOptions,
          pos \in 1..(Len(fs.entries) + 1) :
         (NamingAdd(call.name, call.worktree, opts, pos) /\ opts.ref = NULL)
         => LET B == git_fs_path_basename(call.worktree)
                Free(n) == ~git_fs_path_exists(fs, AdminPath(n))
                Ks == {k \in 1..255 : Free(B \o ToString(k))}
                created == (DOMAIN fs'.admin) \ (DOMAIN fs.admin)
            IN IF Free(B) THEN created = {B}
               ELSE IF Ks # {}
               THEN created =
                      {B \o ToString(CHOOSE k \in Ks : \A j \in Ks : k <= j)}
               ELSE last'.ret < 0 /\ created = {}]_vars

(* --- add, call by call: order of the mutations --- *)

\* the mutations of add in the order the claims give them
AddOrder == <<"worktrees", "admin", "workdir", "locked", ".git", "commondir",
              "gitdir", "ref", "HEAD", "checkout">>
IndexOf(x) == CHOOSE i \in 1..Len(AddOrder) : AddOrder[i] = x

\* the mutation made by the call at pc; 0 for the calls before the first
CallIndex(pc) ==
    CASE pc = "worktrees_mkdir" -> IndexOf("worktrees")
      [] pc = "gitfile" -> IndexOf(".git")
      [] pc = "head" -> IndexOf("HEAD")
      [] pc = "lookup" -> Len(AddOrder) + 1
      [] pc \in Range(AddOrder) -> IndexOf(pc)
      [] OTHER -> 0

FileOf(f, n, x) == IF n \in DOMAIN f.admin THEN f.admin[n][x] ELSE NoFile
GitlinkOf(f, d) == IF d \in DOMAIN f.work THEN f.work[d].gitlink ELSE NoFile

\* the kinds of thing that differ between the repository (f, br) and (g, bs)
Changed(f, br, g, bs) ==
    LET ns == DOMAIN f.admin \cup DOMAIN g.admin
        ds == DOMAIN f.work \cup DOMAIN g.work
        file(x) == IF \E n \in ns : FileOf(f, n, x) # FileOf(g, n, x)
                   THEN {x} ELSE {}
    IN (IF f.worktrees # g.worktrees THEN {"worktrees"} ELSE {})
       \cup (IF DOMAIN f.admin # DOMAIN g.admin \/ f.entries # g.entries
             THEN {"admin"} ELSE {})
       \cup (IF DOMAIN f.work # DOMAIN g.work THEN {"workdir"} ELSE {})
       \cup file("locked") \cup file("commondir") \cup file("gitdir")
       \cup file("HEAD")
       \cup (IF \E d \in ds : GitlinkOf(f, d) # GitlinkOf(g, d)
             THEN {".git"} ELSE {})
       \cup (IF br # bs THEN {"ref"} ELSE {})

\* the thing x of the add a is in the repository (f, br)
Present(x, a, f, br) ==
    LET n == git_fs_path_basename(a.gitdir) IN
    CASE x = "worktrees" -> f.worktrees
      [] x = "admin" -> n \in DOMAIN f.admin
      [] x = "workdir" -> a.worktree \in DOMAIN f.work
      [] x = ".git" -> GitlinkOf(f, a.worktree) # NoFile
      [] x = "ref" -> a.opts.ref # NULL \/ a.name \in br
      [] x \in AdminFiles -> FileOf(f, n, x) # NoFile
      [] OTHER -> TRUE

\* the add a asked for the mutation x
Requested(x, a) == x = "locked" => a.opts.lock

\* the files only the add a itself can have written once it made mutation x
OwnFiles(x) ==
    {"locked", "commondir", "gitdir", "HEAD"}
       \cup (IF IndexOf(x) >= IndexOf("workdir") THEN {".git"} ELSE {})

\* C15: every call of add changes at most one kind of thing; when it makes
\* the mutation x, every mutation before x in the order worktrees/, admin
\* directory, working directory, locked (if requested), .git, commondir,
\* gitdir, branch, HEAD, checkout is already in place and none of the files
\* after x exists yet; a call that fails changes nothing, returns its
\* error (already exists for the directories and the branch), and leaves
\* everything the earlier calls created; an add that has returned makes no
\* further call.
C15_FixedOrder ==
    [][\A p \in Procs : adds'[p] # adds[p] =>
          LET X == Changed(fs, branches, fs', branches')
              a == adds'[p]
          IN /\ adds[p].pc # "out"
             /\ Cardinality(X) <= 1
             /\ X \subseteq {AddOrder[i] : i \in {CallIndex(adds[p].pc)}
                                                    \cap DOMAIN AddOrder}
             /\ \A x \in X :
                   /\ \A j \in 1..(IndexOf(x) - 1) :
                         Requested(AddOrder[j], a)
                            => Present(AddOrder[j], a, fs, branches)
                   /\ \A j \in (IndexOf(x) + 1)..Len(AddOrder) :
                         AddOrder[j] \in OwnFiles(x)
                            => ~Present(AddOrder[j], a, fs', branches')
             /\ (a.pc = "out" /\ a.at # "") =>
                   /\ a.err < 0
                   /\ X = {}
                   /\ a.at \in {"admin", "workdir", "ref"} => a.err = GIT_EEXISTS
                   /\ \A j \in 1..(CallIndex(a.at) - 1) :
                         (Requested(AddOrder[j], a) /\ AddOrder[j] # "checkout")
                            => Present(AddOrder[j], a, fs', branches')]_vars

\* an add failed at the branch, its eighth mutation: its admin directory
\* and the three link files are on disk, HEAD is not
C15_Witness ==
    \E p \in Procs :
       /\ adds[p].pc = "out" /\ adds[p].at = "ref" /\ adds[p].err = GIT_EEXISTS
       /\ ~adds[p].opts.lock
       /\ Present("gitdir", adds[p], fs, branches)
       /\ Present(".git", adds[p], fs, branches)
       /\ ~Present("HEAD", adds[p], fs, branches)

\* the add a has made its locked call and the call returned no error
PastMarker(a) ==
    IF a.pc = "out" THEN a.at = "" \/ CallIndex(a.at) > IndexOf("locked")
    ELSE CallIndex(a.pc) > IndexOf("locked")

\* C16: in an add with lock: true the call that creates locked finds the
\* admin directory and the working directory in place and none of .git,
\* commondir, gitdir and HEAD; and in every state after that call, also
\* when a later call has failed, the admin directory contains locked.
C16_LockedEarly ==
    [][\A p \in Procs :
          /\ (adds'[p] # adds[p]
                /\ "locked" \in Changed(fs, branches, fs', branches')) =>
                /\ adds[p].opts.lock
                /\ Present("admin", adds[p], fs, branches)
                /\ Present("workdir", adds[p], fs, branches)
                /\ \A x \in {".git", "commondir", "gitdir", "HEAD"} :
                      ~Present(x, adds[p], fs', branches')
          /\ (adds'[p].opts.lock /\ PastMarker(adds'[p])) =>
                Present("locked", adds'[p], fs', branches')]_vars

\* an add with lock: true failed at the branch and left locked behind
C16_Witness ==
    \E p \in Procs :
       /\ adds[p].opts.lock
       /\ adds[p].pc = "out" /\ adds[p].at = "ref" /\ adds[p].err < 0
       /\ Present("locked", adds[p], fs, branches)

(* --- leftovers of a failed add --- *)

\* the names a caller can hand to lookup to reach an admin directory of f
RemovalNames(f) == CandidateNames(f) \cup {<<m>> : m \in DOMAIN f.admin}

\* the filesystems one lookup followed by one prune can turn f into
PruneReach(f) ==
    {git_worktree_prune(f, git_worktree_lookup(f, c[1], 0).out, c[2]).fs :
        c \in {d \in RemovalNames(f) \X PruneOptions :
                  git_worktree_lookup(f, d[1], 0).out # NULL}}

\* at most k rounds of lookup and prune make worktrees/n disappear
RECURSIVE Removable(_, _, _)
Removable(f, n, k) ==
    \/ n \notin DOMAIN f.admin
    \/ /\ k > 0
       /\ \E g \in PruneReach(f) \ {f} : Removable(g, n, k - 1)

\* C17: when an add fails after it created its admin directory, some
\* sequence of lookup and prune calls removes that directory again.
C17_LeftoverRemovable ==
    [][\A call \in AddCalls, opts \in AddOptions,
          pos \in 1..(Len(fs.entries) + 1) :
          (Add(call.name, call.worktree, opts, pos) /\ last'.ret < 0) =>
             \A n \in DOMAIN fs'.admin \ DOMAIN fs.admin :
                Removable(fs', n, Cardinality(DOMAIN fs'.admin))]_vars

(* --- the working directory --- *)

\* C18: when worktree_dir already exists as an empty directory, the call of
\* add that creates the working directory does not fail: add goes on to the
\* call that writes .git into it.
C18_ExistingEmptyWorkdir ==
    [][\A p \in Procs :
          (/\ adds[p].pc = "workdir"
           /\ adds'[p] # adds[p]
           /\ adds[p].worktree \in DOMAIN fs.work
           /\ GitlinkOf(fs, adds[p].worktree) = NoFile)
          => /\ adds'[p].pc \in {"locked", "gitfile"}
             /\ adds'[p].err = 0]_vars

(* --- the reference given to add --- *)

\* C19: an add given a reference that is not a branch, or a branch that is
\* already checked out, returns an error and changes nothing: worktrees/ is
\* not created, no admin directory, no working directory and no branch is
\* created, and the Worktree handed back is null.
C19_RefusedBeforeMutation ==
    [][\A call \in AddCalls, opts \in AddOptions,
          pos \in 1..(Len(fs.entries) + 1) :
          (/\ opts.ref # NULL
           /\ \/ ~git_reference_is_branch(opts.ref)
              \/ git_branch_is_checked_out(fs, opts.ref)
           /\ Add(call.name, call.worktree, opts, pos))
          => /\ last'.ret < 0
             /\ fs' = fs
             /\ branches' = branches
             /\ wt' = NULL]_vars

\* an add was refused on a repository that has no worktrees/ yet
C19_Witness ==
    /\ last.op = "add" /\ last.ret = -1
    /\ ~fs.worktrees /\ DOMAIN fs.admin = {} /\ DOMAIN fs.work = {}
    /\ wt = NULL

(* --- two adds racing for one admin directory --- *)

\* the add a has created its admin directory
Created(a) ==
    IF a.pc = "out" THEN a.at = "" \/ CallIndex(a.at) > IndexOf("admin")
    ELSE CallIndex(a.pc) > IndexOf("admin")

SameAdmin(a, b) ==
    git_fs_path_basename(a.gitdir) = git_fs_path_basename(b.gitdir)

\* C20: when adds of two processes interleave call by call, an add whose
\* admin-directory call finds the directory it picked already there fails
\* at that call with GIT_EEXISTS, changes nothing and makes no further
\* call; no two adds have created the same admin directory; and a file of
\* an admin directory is only ever written by the add that created it.
C20_AdminRace ==
    [][\A p \in Procs :
          /\ (/\ adds[p].pc = "admin"
              /\ adds'[p] # adds[p]
              /\ git_fs_path_exists(fs, adds[p].gitdir))
             => /\ adds'[p].pc = "out"
                /\ adds'[p].at = "admin"
                /\ adds'[p].err = GIT_EEXISTS
                /\ fs' = fs
          /\ adds[p].pc = "out" => adds'[p] = adds[p]
          /\ \A q \in Procs \ {p} :
                (Created(adds'[p]) /\ Created(adds'[q]))
                   => ~SameAdmin(adds'[p], adds'[q])
          /\ adds'[p] # adds[p] =>
                \A n \in DOMAIN fs'.admin, x \in AdminFiles :
                   FileOf(fs, n, x) # FileOf(fs', n, x)
                      => /\ n = git_fs_path_basename(adds[p].gitdir)
                         /\ Created(adds[p])]_vars

\* two adds picked the same name: one created the directory and has written
\* its link files, the other failed at the admin directory
C20_Witness ==
    \E p \in Procs, q \in Procs :
       /\ p # q
       /\ adds[p].pc = "out" /\ adds[p].at = "admin"
       /\ adds[p].err = GIT_EEXISTS
       /\ SameAdmin(adds[p], adds[q])
       /\ Created(adds[q])
       /\ adds[p].worktree # adds[q].worktree
       /\ Present("commondir", adds[q], fs, branches)

(* --- what prune leaves alone --- *)

\* w is what a lookup on f returns for some name; add returns the lookup of
\* its worktree argument
FromLookup(f, w) ==
    \E name \in CandidateNames(f) : git_worktree_lookup(f, name, 0).out = w

\* C21: prune(wt, options) on a Worktree obtained from lookup or add,
\* whether it succeeds or fails, leaves the admin directory and the working
\* directory of every other worktree in place and unchanged.
C21_PruneOthersUntouched ==
    [][\A opts \in PruneOptions :
          (/\ wt # NULL
           /\ FromLookup(fs, wt)
           /\ Prune(opts))
          => /\ \A n \in DOMAIN fs.admin :
                   AdminPath(n) # wt.gitdir_path
                      => /\ n \in DOMAIN fs'.admin
                         /\ fs'.admin[n] = fs.admin[n]
             /\ \A d \in DOMAIN fs.work :
                   d # wt.worktree_path
                      => /\ d \in DOMAIN fs'.work
                         /\ fs'.work[d] = fs.work[d]]_vars

(* --- the Worktree add returns --- *)

\* C22: the Worktree returned by a successful add is the one this add
\* created: its gitdir_path is the admin directory the call created and its
\* worktree_path is the worktree argument, also when a worktree whose
\* working directory has the same basename is already registered.
C22_AddReturnsItsOwn ==
    [][\A call \in AddCalls, opts \in AddOptions,
          pos \in 1..(Len(fs.entries) + 1) :
          (Add(call.name, call.worktree, opts, pos) /\ last'.ret = 0)
          => /\ wt' # NULL
             /\ wt'.worktree_path = call.worktree
             /\ {AdminPath(n) : n \in DOMAIN fs'.admin \ DOMAIN fs.admin}
                   = {wt'.gitdir_path}]_vars

====
